---- MODULE Spec2Model ----
(***************************************************************************)
(* State machine of the Home component of src/app/page.tsx: the form       *)
(* state, the response / error / loading state, the uncontrolled prompt    *)
(* text field of the DOM, and the invocations of handleProcessing that     *)
(* are suspended at one of its two awaits.                                 *)
(***************************************************************************)
EXTENDS Integers, Sequences, FiniteSets, TLC

VARIABLES response, error, loading, formData, promptInput, calls, lastEvent

vars == <<response, error, loading, formData, promptInput, calls, lastEvent>>

----------------------------------------------------------------------------
(* Bounds of the explored inputs.                                          *)

MaxFileLen == 3

MaxCalls == 2

ByteVals == {0, 77, 255}

MediaTypes == {"image/jpeg", "application/pdf"}

Prompts == {"", "ok?"}

Texts == {"", "# Tea", "fine"}

----------------------------------------------------------------------------
(* Values.  string | null is the empty tuple (null) or a 1-tuple.          *)

None == <<>>

Some(s) == <<s>>

\* Truthiness of a string | null value, as used by `error && ...` and
\* `response && ...` in the JSX.
Truthy(v) == v # None /\ v[1] # ""

\* File | null, plus the undefined that files[0] yields on an empty FileList.
NullFile == [tag |-> "null", bytes |-> <<>>, type |-> ""]

UndefinedFile == [tag |-> "undefined", bytes |-> <<>>, type |-> ""]

RECURSIVE ByteSeqs(_)
ByteSeqs(n) ==
  IF n = 0 THEN {<<>>}
  ELSE LET shorter == ByteSeqs(n - 1)
       IN  shorter \cup {Append(s, b) : s \in {t \in shorter : Len(t) = n - 1}, b \in ByteVals}

Files == {[tag |-> "file", bytes |-> b, type |-> t] : b \in ByteSeqs(MaxFileLen), t \in MediaTypes}

\* FileList | null handed to handleFileChange; only files[0] is ever read.
FileLists == {None, Some(<<>>)} \cup {Some(<<f>>) : f \in Files}

\* Values a rejected promise or a throw can carry: Error objects and a bare string.
Errors ==
  { [kind |-> "Error", name |-> "Error", message |-> "boom"],
    [kind |-> "Error", name |-> "TypeError", message |-> ""],
    [kind |-> "string", name |-> "", message |-> "quota"] }

\* `${error}`: Error.prototype.toString for Error objects, the string itself otherwise.
ErrToStringMessageOnly(e) == e.message

ErrToString(e) ==
  IF e.kind = "string" THEN e.message
  ELSE IF e.name = "" THEN e.message
  ELSE IF e.message = "" THEN e.name
  ELSE e.name \o ": " \o e.message

----------------------------------------------------------------------------
(* Buffer.from(bytes).toString("base64"); a string is a sequence of        *)
(* one-character strings.                                                  *)

Base64Alphabet ==
  << "A", "B", "C", "D", "E", "F", "G", "H", "I", "J", "K", "L", "M",
     "N", "O", "P", "Q", "R", "S", "T", "U", "V", "W", "X", "Y", "Z",
     "a", "b", "c", "d", "e", "f", "g", "h", "i", "j", "k", "l", "m",
     "n", "o", "p", "q", "r", "s", "t", "u", "v", "w", "x", "y", "z",
     "0", "1", "2", "3", "4", "5", "6", "7", "8", "9", "+", "/" >>

\* The alphabet of the "base64url" encoding, which Buffer writes without padding.
Base64UrlAlphabet == [k \in 1..64 |-> IF k = 63 THEN "-" ELSE IF k = 64 THEN "_" ELSE Base64Alphabet[k]]

\* Three bytes become four characters; a last group of one or two bytes
\* becomes two or three characters and, when padded, "=" up to four.
RECURSIVE Base64Encode(_, _, _)
Base64Encode(b, alphabet, padded) ==
  IF Len(b) = 0 THEN <<>>
  ELSE IF Len(b) = 1 THEN
    << alphabet[b[1] \div 4 + 1], alphabet[(b[1] % 4) * 16 + 1] >>
    \o (IF padded THEN << "=", "=" >> ELSE <<>>)
  ELSE IF Len(b) = 2 THEN
    << alphabet[b[1] \div 4 + 1], alphabet[(b[1] % 4) * 16 + b[2] \div 16 + 1],
       alphabet[(b[2] % 16) * 4 + 1] >>
    \o (IF padded THEN << "=" >> ELSE <<>>)
  ELSE
    << alphabet[b[1] \div 4 + 1], alphabet[(b[1] % 4) * 16 + b[2] \div 16 + 1],
       alphabet[(b[2] % 16) * 4 + b[3] \div 64 + 1], alphabet[(b[3] % 64) + 1] >>
    \o Base64Encode(SubSeq(b, 4, Len(b)), alphabet, padded)

ToBase64Url(b) == Base64Encode(b, Base64UrlAlphabet, FALSE)

\* Buffer.from(bytes).toString("base64")
ToBase64(b) == Base64Encode(b, Base64Alphabet, TRUE)

----------------------------------------------------------------------------
(* The component.                                                          *)

NoFileMessage == "No file specified"

Event(op, val) == [op |-> op, val |-> val]

Init ==
  /\ response = None
  /\ error = None
  /\ loading = FALSE
  /\ formData = [file |-> NullFile, prompt |-> ""]
  /\ promptInput = ""
  /\ calls = <<>>
  /\ lastEvent = Event("mount", None)

\* disabled={loading} on the text field, the file input and the submit button.
ControlsDisabledNever(l) == FALSE

ControlsDisabled(l) == l

\* `required` on the prompt text field: the browser validates the value the
\* field holds, and blocks the submit event when it is empty.
RequiredSatisfied(value) == value # ""

\* if (!formData.file)
FileMissingNever(fd) == FALSE

FileMissing(fd) == fd.file.tag # "file"

\* The MessageData object built after the file has been read.
MessageData(fd) ==
  [file |-> [contents |-> ToBase64(fd.file.bytes), type |-> fd.file.type],
   prompt |-> fd.prompt]

\* The object the Clear button stores.
ClearedFormKeepsPrompt(fd) == [fd EXCEPT !.file = NullFile]

ClearedForm(fd) == [file |-> NullFile, prompt |-> ""]

\* onChange of the prompt text field (typing), through handleInputChange.
HandleInputChange(value) ==
  /\ ~ControlsDisabled(loading)
  /\ promptInput' = value
  /\ formData' = [formData EXCEPT !.prompt = value]
  /\ lastEvent' = Event("type", None)
  /\ UNCHANGED <<response, error, loading, calls>>

\* handleFileChange
FileChanged(fd, files) ==
  IF files # None
    THEN [fd EXCEPT !.file = IF Len(files[1]) > 0 THEN files[1][1] ELSE UndefinedFile]
    ELSE fd

\* onChange of the hidden file input (browse dialog).
FileInputChange(files) ==
  /\ ~ControlsDisabled(loading)
  /\ formData' = FileChanged(formData, files)
  /\ lastEvent' = Event("browse", None)
  /\ UNCHANGED <<response, error, loading, promptInput, calls>>

\* onDrop of the drop zone; dataTransfer.files is a FileList.
Drop(files) ==
  /\ files # None
  /\ formData' = IF ~loading /\ Len(files[1]) > 0
                   THEN FileChanged(formData, files)
                   ELSE formData
  /\ lastEvent' = Event("drop", None)
  /\ UNCHANGED <<response, error, loading, promptInput, calls>>

\* onClick of the Clear button, which is never disabled.
Clear ==
  /\ formData' = ClearedForm(formData)
  /\ lastEvent' = Event("clear", None)
  /\ UNCHANGED <<response, error, loading, promptInput, calls>>

\* The submit event reaches handleProcessing.
SubmitEnabled ==
  /\ ~ControlsDisabled(loading)
  /\ RequiredSatisfied(promptInput)
  /\ Len(calls) < MaxCalls

\* handleProcessing up to its first await, with no file: the early return
\* and the finally block run in the same event.
SubmitNoFile ==
  /\ SubmitEnabled
  /\ FileMissing(formData)
  /\ error' = Some(NoFileMessage)
  /\ loading' = FALSE
  /\ lastEvent' = Event("nofile", None)
  /\ UNCHANGED <<response, formData, promptInput, calls>>

\* handleProcessing up to its first await, with a file: it suspends on
\* formData.file.arrayBuffer(), holding the formData of the render it ran in.
SubmitWithFile ==
  /\ SubmitEnabled
  /\ ~FileMissing(formData)
  /\ loading' = TRUE
  /\ error' = None
  /\ calls' = Append(calls, [pc |-> "reading", formData |-> formData, payload |-> None])
  /\ lastEvent' = Event("submit", None)
  /\ UNCHANGED <<response, formData, promptInput>>

Remove(s, i) == SubSeq(s, 1, i - 1) \o SubSeq(s, i + 1, Len(s))

\* arrayBuffer() resolves: the payload is built and sendMessage is called.
ReadResolves(i) ==
  /\ calls[i].pc = "reading"
  /\ calls' = [calls EXCEPT ![i] = [pc |-> "sending", formData |-> calls[i].formData,
                                    payload |-> Some(MessageData(calls[i].formData))]]
  /\ lastEvent' = Event("send", None)
  /\ UNCHANGED <<response, error, loading, formData, promptInput>>

\* catch (error) { setError(`${error}`) } finally { setLoading(false) }
CaughtKeepsLoading(e) ==
  /\ error' = Some(ErrToString(e))
  /\ loading' = loading

Caught(e) ==
  /\ error' = Some(ErrToString(e))
  /\ loading' = FALSE

\* arrayBuffer() rejects.
ReadRejects(i, e) ==
  /\ calls[i].pc = "reading"
  /\ Caught(e)
  /\ calls' = Remove(calls, i)
  /\ lastEvent' = Event("readfail", Some(e))
  /\ UNCHANGED <<response, formData, promptInput>>

\* sendMessage resolves with text r: setResponse(r), then the finally block.
ResolvedKeepsResponse(r) ==
  /\ response' = response
  /\ loading' = FALSE

Resolved(r) ==
  /\ response' = Some(r)
  /\ loading' = FALSE

SendResolves(i, r) ==
  /\ calls[i].pc = "sending"
  /\ Resolved(r)
  /\ calls' = Remove(calls, i)
  /\ lastEvent' = Event("resolve", Some(r))
  /\ UNCHANGED <<error, formData, promptInput>>

\* sendMessage throws or rejects.
SendRejects(i, e) ==
  /\ calls[i].pc = "sending"
  /\ Caught(e)
  /\ calls' = Remove(calls, i)
  /\ lastEvent' = Event("sendfail", Some(e))
  /\ UNCHANGED <<response, formData, promptInput>>

ReadSettles == \E i \in 1..Len(calls) : ReadResolves(i) \/ \E e \in Errors : ReadRejects(i, e)

SendSettles ==
  \E i \in 1..Len(calls) :
    \/ \E r \in Texts : SendResolves(i, r)
    \/ \E e \in Errors : SendRejects(i, e)

Next ==
  \/ \E v \in Prompts : HandleInputChange(v)
  \/ \E fl \in FileLists : FileInputChange(fl)
  \/ \E fl \in FileLists : Drop(fl)
  \/ Clear
  \/ SubmitNoFile
  \/ SubmitWithFile
  \/ ReadSettles
  \/ SendSettles

Spec == Init /\ [][Next]_vars

\* The file read and the remote call eventually settle.
LiveSpec == Spec /\ WF_vars(ReadSettles) /\ WF_vars(SendSettles)

----------------------------------------------------------------------------
(* What the JSX renders.                                                   *)

\* {error && <div role="alert">...{error}</div>}
ErrorShown == Truthy(error)

\* {response && <motion.div><ReactMarkdown>{response}</ReactMarkdown></motion.div>}
PanelShown == Truthy(response)

PanelContent == response[1]

TypeOK ==
  /\ response \in {None} \cup {Some(t) : t \in Texts}
  /\ loading \in BOOLEAN
  /\ formData.file \in Files \cup {NullFile, UndefinedFile}
  /\ formData.prompt \in Prompts
  /\ promptInput \in Prompts
  /\ Len(calls) <= MaxCalls

----------------------------------------------------------------------------
(* Properties.                                                             *)

Idle == ~loading /\ response = None /\ error = None

EmptyForm == [file |-> NullFile, prompt |-> ""]

Sending(i) == calls[i].pc = "sending"

\* C1: when handleProcessing runs with no file in the form state, no
\* invocation is left waiting on a read or on sendMessage (so sendMessage is
\* never called for that submission), and the handler finishes with the
\* error state equal to "No file specified".
C1_NoFileNoCall ==
  /\ [](\A i \in DOMAIN calls : calls[i].formData.file.tag = "file")
  /\ [][(lastEvent'.op \in {"nofile", "submit"} /\ formData.file \in {NullFile, UndefinedFile})
          => (calls' = calls /\ error' = Some("No file specified"))]_vars

C1_Witness ==
  /\ lastEvent.op = "nofile"
  /\ formData.file = NullFile
  /\ error = Some("No file specified")
  /\ calls = <<>>

\* C2: in every reachable state at most one invocation of handleProcessing is
\* unsettled, hence at most one sendMessage call is outstanding, and while
\* one is unsettled loading is true (the submit control is disabled).
C2_OneOutstanding ==
  /\ Len(calls) <= 1
  /\ Cardinality({i \in DOMAIN calls : Sending(i)}) <= 1
  /\ (calls # <<>> => loading)

C2_Witness == Len(calls) = 1 /\ Sending(1) /\ loading /\ lastEvent.op = "clear"

\* C3: every sendMessage call carries a payload whose file is present and
\* whose prompt is non-empty.
C3_PayloadComplete ==
  \A i \in DOMAIN calls :
    Sending(i) => /\ calls[i].formData.file.tag = "file"
                  /\ calls[i].payload[1].prompt # ""

\* C4: no two of loading, a non-null response and a non-null error hold
\* together, so exactly one of Idle, Loading, Success, Failure is active.
C4_OneResponseState ==
  /\ ~(loading /\ response # None)
  /\ ~(loading /\ error # None)
  /\ ~(response # None /\ error # None)

\* The string JavaScript gives for each value of Errors.
Stringified(e) ==
  CASE e = [kind |-> "Error", name |-> "Error", message |-> "boom"] -> "Error: boom"
    [] e = [kind |-> "Error", name |-> "TypeError", message |-> ""] -> "TypeError"
    [] e = [kind |-> "string", name |-> "", message |-> "quota"] -> "quota"

\* C5: when the file read or the sendMessage call fails with error E, the
\* handler finishes with the error state equal to the stringified E and
\* with loading false.
C5_FailureShown ==
  lastEvent.op \in {"readfail", "sendfail"}
    => /\ error = Some(Stringified(lastEvent.val[1]))
       /\ loading = FALSE

C5_Witness ==
  /\ lastEvent = Event("sendfail", Some([kind |-> "Error", name |-> "Error", message |-> "boom"]))
  /\ error = Some("Error: boom")
  /\ ~loading

\* C6 as stated: when sendMessage resolves with text T, for every T, the
\* handler finishes with response = T, no error, and the output panel shown
\* with T as its content.
C6_PanelAlwaysShown ==
  lastEvent.op = "resolve"
    => /\ response = lastEvent.val
       /\ error = None
       /\ PanelShown
       /\ PanelContent = lastEvent.val[1]

\* C6 as amended: when sendMessage resolves with text T, the handler finishes
\* with response = T and no error; the output panel is shown, with T as its
\* content, exactly when T is not the empty string.
C6_PanelShownIfNonEmpty ==
  lastEvent.op = "resolve"
    => /\ response = lastEvent.val
       /\ error = None
       /\ (PanelShown <=> lastEvent.val[1] # "")
       /\ (PanelShown => PanelContent = lastEvent.val[1])

C6_Witness ==
  /\ lastEvent = Event("resolve", Some("# Tea"))
  /\ response = Some("# Tea")
  /\ PanelShown

\* C7: the Clear action leaves the form state with an empty prompt and no
\* file, in whatever response state it is taken.
C7_ClearResetsForm == lastEvent.op = "clear" => formData = EmptyForm

C7_Witness ==
  /\ lastEvent.op = "clear"
  /\ promptInput # ""
  /\ response # None
  /\ formData = EmptyForm

\* C8: from Success or Failure a Clear returns the response state to Idle,
\* and a submission that starts a call is Loading with neither an old
\* response nor an old error still set.
C8_Cycle ==
  [][/\ (lastEvent'.op = "clear" /\ ~loading /\ (response # None \/ error # None)) => Idle'
     /\ lastEvent'.op = "submit" => (loading' /\ response' = None /\ error' = None)]_vars

\* Decoding of base64 text, RFC 4648 section 4.
Base64Chars == {Base64Alphabet[k] : k \in 1..64}

SextetOf(c) == CHOOSE k \in 0..63 : Base64Alphabet[k + 1] = c

IsBase64(s) ==
  /\ Len(s) % 4 = 0
  /\ \A k \in 1..Len(s) : s[k] \in Base64Chars \cup {"="}
  /\ \A k \in 1..Len(s) : s[k] = "=" => k >= Len(s) - 1
  /\ (Len(s) > 0 /\ s[Len(s)] # "=") => s[Len(s) - 1] # "="

RECURSIVE Base64Decode(_)
Base64Decode(s) ==
  IF Len(s) < 4 THEN <<>>
  ELSE (IF s[3] = "="
          THEN << SextetOf(s[1]) * 4 + SextetOf(s[2]) \div 16 >>
        ELSE IF s[4] = "="
          THEN << SextetOf(s[1]) * 4 + SextetOf(s[2]) \div 16,
                  (SextetOf(s[2]) % 16) * 16 + SextetOf(s[3]) \div 4 >>
        ELSE << SextetOf(s[1]) * 4 + SextetOf(s[2]) \div 16,
                (SextetOf(s[2]) % 16) * 16 + SextetOf(s[3]) \div 4,
                (SextetOf(s[3]) % 4) * 64 + SextetOf(s[4]) >>)
       \o Base64Decode(SubSeq(s, 5, Len(s)))

\* C9: the contents of every payload passed to sendMessage is base64 text
\* that decodes to exactly the bytes of the file selected at submission, and
\* the payload's type is that file's media type.
C9_RoundTrip ==
  \A i \in DOMAIN calls :
    Sending(i) =>
      LET f == calls[i].formData.file
          p == calls[i].payload[1].file
      IN  /\ IsBase64(p.contents)
          /\ Base64Decode(p.contents) = f.bytes
          /\ p.type = f.type

C9_Witness ==
  /\ Len(calls) = 1
  /\ Sending(1)
  /\ calls[1].formData.file.bytes = <<255, 77>>
  /\ calls[1].payload[1].file.contents = << "/", "0", "0", "=" >>

\* C10: a submission that starts a call sets loading; loading is false
\* whenever no invocation is in progress; and, the read and the call
\* settling, loading always becomes false again.
C10_LoadingReleased ==
  /\ [][lastEvent'.op = "submit" => loading']_vars
  /\ [](calls = <<>> => ~loading)
  /\ (loading ~> ~loading)

C10_Witness == lastEvent.op = "readfail" /\ calls = <<>> /\ ~loading

====
